---- MODULE Spec2Model ----
(***************************************************************************)
(* Placement & Interview Tracker (app.py): the record table held in the    *)
(* Streamlit session state, the CSV file it is loaded from and saved to,   *)
(* the add / edit form handlers and the dashboard's filtered and upcoming  *)
(* views.                                                                  *)
(*                                                                         *)
(* Text is a sequence of one-character strings, so that strip(), lower()   *)
(* and str.contains() are computed character by character.  A date is the  *)
(* number of its day; a CSV cell is the text written to the file.          *)
(***************************************************************************)
EXTENDS Integers, Sequences, FiniteSets, TLC

\* ---------------------------------------------------------------- bounds
\* most rows a session's table grows to
MaxRows == 2
\* last day the calendar advances to
MaxDay == 11
\* day the calendar starts on
FirstDay == 10
\* most rows of a stored table the dashboard is shown for
MaxTable == 3

\* browser sessions; each has its own st.session_state
Sessions == {1, 2}

\* ---------------------------------------------------------------- values
\* pandas' missing text value (read_csv yields NaN for an empty cell)
NaN == <<"NaN">>
\* pandas' missing date value (to_datetime(errors="coerce") yields NaT)
NaT == 0 - 1

Range(s) == {s[i] : i \in 1..Len(s)}

\* ---------------------------------------------------------------- text
\* str.strip(): drop leading and trailing blanks
RECURSIVE LStrip(_)
LStrip(s) == IF s # <<>> /\ Head(s) = " " THEN LStrip(Tail(s)) ELSE s

RECURSIVE RStrip(_)
RStrip(s) == IF s # <<>> /\ s[Len(s)] = " " THEN RStrip(SubSeq(s, 1, Len(s) - 1)) ELSE s

Strip(s) == RStrip(LStrip(s))

\* str.lower() on the letters the inputs use
LowerChar(c) ==
    CASE c = "G" -> "g"
      [] c = "O" -> "o"
      [] c = "M" -> "m"
      [] c = "Q" -> "q"
      [] OTHER -> c

Lower(s) == [i \in 1..Len(s) |-> LowerChar(s[i])]

\* plain substring test (what the specification calls "is a substring of")
IsSubstring(t, s) ==
    \E i \in 0..(Len(s) - Len(t)) : \A k \in 1..Len(t) : s[i + k] = t[k]

\* Series.str.contains(pat): pat is a regular expression (regex=True is the
\* pandas default), searched anywhere in the value.  Of the metacharacters
\* only "." (any character) occurs in the inputs.
RegexContains(s, pat) ==
    \E i \in 0..(Len(s) - Len(pat)) :
        \A k \in 1..Len(pat) : pat[k] = "." \/ s[i + k] = pat[k]

\* Series.str.lower().str.contains(text) on one cell: NaN stays NaN, which
\* the boolean mask treats as False
CellContains(cell, text) ==
    IF cell = NaN THEN FALSE ELSE RegexContains(Lower(cell), text)

\* ---------------------------------------------------------------- CSV cells
DIGITS == <<"0", "1", "2", "3", "4", "5", "6", "7", "8", "9">>

DigitValue(c) == CHOOSE d \in 0..9 : DIGITS[d + 1] = c
IsDigit(c) == \E d \in 0..9 : DIGITS[d + 1] = c

RECURSIVE FormatInt(_)
FormatInt(n) ==
    IF n < 10 THEN <<DIGITS[n + 1]>>
    ELSE Append(FormatInt(n \div 10), DIGITS[(n % 10) + 1])

RECURSIVE ParseInt(_)
ParseInt(s) ==
    IF Len(s) = 1 THEN DigitValue(s[1])
    ELSE 10 * ParseInt(SubSeq(s, 1, Len(s) - 1)) + DigitValue(s[Len(s)])

IsNumber(s) == s # <<>> /\ \A i \in 1..Len(s) : IsDigit(s[i])

\* to_csv: a date is written as its calendar date, a missing one as ""
FormatDate(d) == IF d = NaT THEN <<>> ELSE FormatInt(d)
\* pd.to_datetime(errors="coerce").dt.date: unparseable or empty gives NaT
ParseDate(c) == IF IsNumber(c) THEN ParseInt(c) ELSE NaT

\* to_csv: text is written as it is, a missing value as ""
FormatText(t) == IF t = NaN THEN <<>> ELSE t
\* read_csv: the default na_values turn an empty cell (and "NA", ...) into NaN
NA_VALUES == {<<>>, <<"N", "A">>}
ParseText(c) == IF c \in NA_VALUES THEN NaN ELSE c

\* ---------------------------------------------------------------- the table
COLUMNS == {"ID", "Company", "Role", "Location", "Application_Date", "Status",
            "Next_Step_Date", "Priority", "Notes", "Last_Updated"}

\* the file applications.csv: absent, or a header and these rows of cells
NoFile == [exists |-> FALSE, rows |-> <<>>]

FormatRow(r) ==
    [ID |-> FormatInt(r.ID),
     Company |-> FormatText(r.Company),
     Role |-> FormatText(r.Role),
     Location |-> FormatText(r.Location),
     Application_Date |-> FormatDate(r.Application_Date),
     Status |-> r.Status,
     Next_Step_Date |-> FormatDate(r.Next_Step_Date),
     Priority |-> r.Priority,
     Notes |-> FormatText(r.Notes),
     Last_Updated |-> FormatDate(r.Last_Updated)]

ParseRow(c) ==
    [ID |-> ParseInt(c.ID),
     Company |-> ParseText(c.Company),
     Role |-> ParseText(c.Role),
     Location |-> ParseText(c.Location),
     Application_Date |-> ParseDate(c.Application_Date),
     Status |-> c.Status,
     Next_Step_Date |-> ParseDate(c.Next_Step_Date),
     Priority |-> c.Priority,
     Notes |-> ParseText(c.Notes),
     Last_Updated |-> ParseDate(c.Last_Updated)]

\* load_data(): an absent file gives the empty table
load_data(f) ==
    IF ~f.exists THEN <<>> ELSE [i \in 1..Len(f.rows) |-> ParseRow(f.rows[i])]

\* save_data(df): the whole table overwrites the file
save_all_but_last(d) ==
    [exists |-> TRUE, rows |-> [i \in 1..(Len(d) - 1) |-> FormatRow(d[i])]]
save_data(d) ==
    [exists |-> TRUE, rows |-> [i \in 1..Len(d) |-> FormatRow(d[i])]]

IDs(d) == {d[i].ID : i \in 1..Len(d)}
MaxOf(S) == CHOOSE m \in S : \A x \in S : x <= m

\* get_new_id(df)
get_new_id_by_count(d) == Len(d) + 1
get_new_id(d) == IF d = <<>> THEN 1 ELSE MaxOf(IDs(d)) + 1

\* the add form's check: `not company.strip() or not role.strip()`
required_missing_both(company, role) == Strip(company) = <<>> /\ Strip(role) = <<>>
required_missing(company, role) == Strip(company) = <<>> \/ Strip(role) = <<>>

\* new_row of the add handler
new_row_untrimmed(new_id, f, day) ==
    [ID |-> new_id,
     Company |-> f.company,
     Role |-> Strip(f.role),
     Location |-> Strip(f.location),
     Application_Date |-> f.app_date,
     Status |-> f.status,
     Next_Step_Date |-> f.next_step_date,
     Priority |-> f.priority,
     Notes |-> Strip(f.notes),
     Last_Updated |-> day]
new_row(new_id, f, day) ==
    [ID |-> new_id,
     Company |-> Strip(f.company),
     Role |-> Strip(f.role),
     Location |-> Strip(f.location),
     Application_Date |-> f.app_date,
     Status |-> f.status,
     Next_Step_Date |-> f.next_step_date,
     Priority |-> f.priority,
     Notes |-> Strip(f.notes),
     Last_Updated |-> day]

\* the df.at[idx, ...] assignments of the edit handler
edit_row_keep_stamp(r, f, day) ==
    [ID |-> r.ID,
     Company |-> Strip(f.company),
     Role |-> Strip(f.role),
     Location |-> Strip(f.location),
     Application_Date |-> f.app_date,
     Status |-> f.status,
     Next_Step_Date |-> f.next_step_date,
     Priority |-> f.priority,
     Notes |-> Strip(f.notes),
     Last_Updated |-> r.Last_Updated]
edit_row(r, f, day) ==
    [ID |-> r.ID,
     Company |-> Strip(f.company),
     Role |-> Strip(f.role),
     Location |-> Strip(f.location),
     Application_Date |-> f.app_date,
     Status |-> f.status,
     Next_Step_Date |-> f.next_step_date,
     Priority |-> f.priority,
     Notes |-> Strip(f.notes),
     Last_Updated |-> day]

\* df.index[df["ID"] == selected_id][0]
IndexOfID(d, id) == CHOOSE i \in 1..Len(d) : d[i].ID = id /\ \A j \in 1..(i - 1) : d[j].ID # id

\* ---------------------------------------------------------------- dashboard
\* filtered[filtered[col].isin(selection)], applied only `if selection:`
IsIn(value, selection) == selection = {} \/ value \in selection

\* the three filters of the dashboard, one after the other
FilterTable(d, status_filter, priority_filter, company_search) ==
    LET text == Lower(Strip(company_search))
        byStatus == SelectSeq(d, LAMBDA r : IsIn(r.Status, status_filter))
        byPriority == SelectSeq(byStatus, LAMBDA r : IsIn(r.Priority, priority_filter))
    IN  IF Strip(company_search) = <<>> THEN byPriority
        ELSE SelectSeq(byPriority,
                       LAMBDA r : CellContains(r.Company, text) \/ CellContains(r.Role, text))

\* (to_datetime(Next_Step_Date) - to_datetime(today)).dt.days: <<n>>, or <<>>
\* (NaN) when the date is missing
DaysToNextStep(r, day) ==
    IF r.Next_Step_Date = NaT THEN <<>> ELSE <<r.Next_Step_Date - day>>

WithDays(d, day) ==
    [i \in 1..Len(d) |->
        [ID |-> d[i].ID,
         Company |-> d[i].Company,
         Role |-> d[i].Role,
         Location |-> d[i].Location,
         Application_Date |-> d[i].Application_Date,
         Status |-> d[i].Status,
         Next_Step_Date |-> d[i].Next_Step_Date,
         Priority |-> d[i].Priority,
         Notes |-> d[i].Notes,
         Last_Updated |-> d[i].Last_Updated,
         Days_to_Next_Step |-> DaysToNextStep(d[i], day)]]

\* the mask of the upcoming view
IsUpcomingWithin6(r) ==
    /\ r.Next_Step_Date # NaT
    /\ r.Days_to_Next_Step # <<>>
    /\ r.Days_to_Next_Step[1] >= 0
    /\ r.Days_to_Next_Step[1] < 7
IsUpcoming(r) ==
    /\ r.Next_Step_Date # NaT
    /\ r.Days_to_Next_Step # <<>>
    /\ r.Days_to_Next_Step[1] >= 0
    /\ r.Days_to_Next_Step[1] <= 7

\* DataFrame.sort_values("Next_Step_Date"): ascending, rows with equal dates
\* keep their order
RECURSIVE InsertByNextStep(_, _)
InsertByNextStep(sorted, r) ==
    IF sorted = <<>> THEN <<r>>
    ELSE IF sorted[Len(sorted)].Next_Step_Date <= r.Next_Step_Date THEN Append(sorted, r)
    ELSE Append(InsertByNextStep(SubSeq(sorted, 1, Len(sorted) - 1), r), sorted[Len(sorted)])

RECURSIVE SortByNextStep(_)
SortByNextStep(d) ==
    IF d = <<>> THEN <<>>
    ELSE InsertByNextStep(SortByNextStep(SubSeq(d, 1, Len(d) - 1)), d[Len(d)])

Upcoming(filtered) == SortByNextStep(SelectSeq(filtered, IsUpcoming))

\* ---------------------------------------------------------------- inputs
\* a submitted form: the widgets' values
Form(company, role, location, app_date, status, next_step_date, priority, notes) ==
    [company |-> company, role |-> role, location |-> location, app_date |-> app_date,
     status |-> status, next_step_date |-> next_step_date, priority |-> priority,
     notes |-> notes]

NoForm == Form(<<>>, <<>>, <<>>, 0, "Applied", 0, "Medium", <<>>)

\* forms a user submits on day `day`: padded and unpadded text, optional
\* fields filled in, left empty or blank
ValidForms(day) ==
    {Form(<<" ", "G", "o", " ">>, <<"q">>, <<"x">>, day, "Applied", day + 3, "High", <<"x">>),
     Form(<<"M">>, <<" ", "d">>, <<>>, day - 1, "Offer", day, "Medium", <<"x", " ">>),
     Form(<<"g", "o">>, <<"Q">>, <<" ">>, day, "Rejected", day + 8, "Low", <<>>)}

BlankForms(day) ==
    {Form(<<>>, <<"d">>, <<>>, day, "Applied", day, "Medium", <<>>),
     Form(<<"M">>, <<" ", " ">>, <<"x">>, day, "Offer", day + 3, "Low", <<>>),
     Form(<<" ">>, <<>>, <<>>, day, "Applied", day, "Medium", <<"x">>)}

Forms(day) == ValidForms(day) \cup BlankForms(day)

\* texts typed into "Search Company / Role"
Searches == {<<" ">>, <<" ", "G", "O">>, <<"q">>, <<".">>}

\* selections of the priority multiselect
PrioritySelections == {{}, {"Low", "High"}}

\* applications.csv as found at start-up: absent, or one stored application
\* with no next-step date
StoredRow(id, company, role, status, next_step_date, priority) ==
    [ID |-> FormatInt(id), Company |-> company, Role |-> role, Location |-> <<>>,
     Application_Date |-> FormatDate(FirstDay - 1), Status |-> status,
     Next_Step_Date |-> next_step_date, Priority |-> priority, Notes |-> <<>>,
     Last_Updated |-> FormatDate(FirstDay - 1)]

StoredFile ==
    [exists |-> TRUE, rows |-> <<StoredRow(2, <<"G", "o">>, <<"d">>, "Applied", <<>>, "Low")>>]

InitialFiles == {NoFile, StoredFile}

\* stored applications whose next step is 1 day before, on, and 3, 7 and 8 days
\* after the first day, and one with no next-step date
SampleRows ==
    <<StoredRow(1, <<"G", "o">>, <<"d">>, "Applied", FormatDate(FirstDay + 8), "Low"),
      StoredRow(2, <<"M">>, <<"q">>, "Offer", FormatDate(FirstDay + 7), "High"),
      StoredRow(3, <<"g", "o">>, <<"Q">>, "Applied", FormatDate(FirstDay + 3), "Medium"),
      StoredRow(4, <<"M">>, <<"d">>, "Offer", FormatDate(FirstDay), "High"),
      StoredRow(5, <<"G", "o">>, <<"q">>, "Offer", FormatDate(FirstDay - 1), "Low"),
      StoredRow(6, <<"M">>, <<"d">>, "Applied", <<>>, "Medium")>>

\* files holding up to MaxTable of the sample rows, in any order
SampleFiles ==
    {[exists |-> TRUE, rows |-> [i \in DOMAIN pick |-> SampleRows[pick[i]]]] :
        pick \in {p \in UNION {[1..n -> 1..Len(SampleRows)] : n \in 0..MaxTable} :
                    \A a, b \in DOMAIN p : a # b => p[a] # p[b]}}

\* ---------------------------------------------------------------- state
VARIABLES
    file,     \* applications.csv
    df,       \* st.session_state.df of each session
    today,    \* date.today()
    last,     \* the interaction the last script run handled, and its outcome
    view,     \* what the dashboard computed in the last script run
    created   \* history: the (session, ID) pairs the add handler assigned

vars == <<file, df, today, last, view, created>>

NoView ==
    [shown |-> FALSE, s |-> 0, status_filter |-> {}, priority_filter |-> {},
     company_search |-> <<>>, filtered |-> <<>>, upcoming |-> <<>>]

Interaction(op, s, f, selected_id) == [op |-> op, s |-> s, form |-> f, selected_id |-> selected_id]

\* every session has run the script once: `if "df" not in st.session_state`
Init ==
    /\ file \in InitialFiles
    /\ df = [s \in Sessions |-> load_data(file)]
    /\ today = FirstDay
    /\ last = Interaction("start", 0, NoForm, 0)
    /\ view = NoView
    /\ created = {}

\* a browser (re)connects: a fresh session state, so the table is loaded again
new_session(s) ==
    /\ df' = [df EXCEPT ![s] = load_data(file)]
    /\ last' = Interaction("load", s, NoForm, 0)
    /\ view' = NoView
    /\ UNCHANGED <<file, today, created>>

\* "Add New", form submitted
add_submit(s, f) ==
    IF required_missing(f.company, f.role)
    THEN /\ last' = Interaction("add_error", s, f, 0)
         /\ view' = NoView
         /\ UNCHANGED <<file, df, today, created>>
    ELSE /\ Len(df[s]) < MaxRows
         /\ LET new_id == get_new_id(df[s])
                table == Append(df[s], new_row(new_id, f, today))
            IN  /\ df' = [df EXCEPT ![s] = table]
                /\ file' = save_data(table)
                /\ last' = Interaction("add_ok", s, f, new_id)
                /\ created' = created \cup {[s |-> s, id |-> new_id]}
         /\ view' = NoView
         /\ UNCHANGED today

\* "Edit Existing", an application selected, form submitted
edit_submit(s, selected_id, f) ==
    /\ df[s] # <<>>
    /\ selected_id \in IDs(df[s])
    /\ LET idx == IndexOfID(df[s], selected_id)
           table == [df[s] EXCEPT ![idx] = edit_row(df[s][idx], f, today)]
       IN  /\ df' = [df EXCEPT ![s] = table]
           /\ file' = save_data(table)
    /\ last' = Interaction("edit_ok", s, f, selected_id)
    /\ view' = NoView
    /\ UNCHANGED <<today, created>>

\* the options of the status multiselect: sorted(df["Status"].dropna().unique())
StatusOptions(d) == {d[i].Status : i \in 1..Len(d)}

\* the Dashboard page with the three filter widgets set
dashboard(s, status_filter, priority_filter, company_search) ==
    /\ df[s] # <<>>
    /\ status_filter \subseteq StatusOptions(df[s])
    /\ LET filtered == WithDays(FilterTable(df[s], status_filter, priority_filter,
                                            company_search), today)
       IN  view' = [shown |-> TRUE, s |-> s, status_filter |-> status_filter,
                    priority_filter |-> priority_filter,
                    company_search |-> company_search,
                    filtered |-> filtered, upcoming |-> Upcoming(filtered)]
    /\ last' = Interaction("dashboard", s, NoForm, 0)
    /\ UNCHANGED <<file, df, today, created>>

\* midnight passes between two script runs
next_day ==
    /\ today < MaxDay
    /\ today' = today + 1
    /\ last' = Interaction("idle", 0, NoForm, 0)
    /\ view' = NoView
    /\ UNCHANGED <<file, df, created>>

\* one browser session adding and editing applications
Next ==
    \/ new_session(1)
    \/ \E f \in Forms(today) : add_submit(1, f)
    \/ \E id \in IDs(df[1]), f \in Forms(today) : edit_submit(1, id, f)
    \/ next_day

Spec == Init /\ [][Next]_vars

\* the dashboard of one session over a stored table
InitDashboard ==
    /\ file \in SampleFiles
    /\ df = [s \in Sessions |-> load_data(file)]
    /\ today = FirstDay
    /\ last = Interaction("start", 0, NoForm, 0)
    /\ view = NoView
    /\ created = {}

NextDashboard ==
    \/ \E st \in SUBSET StatusOptions(df[1]), pr \in PrioritySelections, text \in Searches :
           dashboard(1, st, pr, text)
    \/ next_day

SpecDashboard == InitDashboard /\ [][NextDashboard]_vars

\* two browser sessions over the same applications.csv
MultiForms(day) ==
    {f \in ValidForms(day) : f.status # "Rejected"}

NextMulti ==
    \/ \E s \in Sessions : new_session(s)
    \/ \E s \in Sessions, f \in MultiForms(today) : add_submit(s, f)
    \/ \E s \in Sessions : \E id \in IDs(df[s]), f \in MultiForms(today) : edit_submit(s, id, f)

SpecMulti == Init /\ [][NextMulti]_vars

\* ---------------------------------------------------------------- properties
UniqueIDs(d) == \A i, j \in 1..Len(d) : i # j => d[i].ID # d[j].ID

\* the row the add handler is to append for form f on day `day`
Trimmed(f) ==
    [Company |-> Strip(f.company), Role |-> Strip(f.role), Location |-> Strip(f.location),
     Application_Date |-> f.app_date, Status |-> f.status,
     Next_Step_Date |-> f.next_step_date, Priority |-> f.priority, Notes |-> Strip(f.notes)]

CarriesForm(r, f) ==
    /\ r.Company = Trimmed(f).Company
    /\ r.Role = Trimmed(f).Role
    /\ r.Location = Trimmed(f).Location
    /\ r.Application_Date = Trimmed(f).Application_Date
    /\ r.Status = Trimmed(f).Status
    /\ r.Next_Step_Date = Trimmed(f).Next_Step_Date
    /\ r.Priority = Trimmed(f).Priority
    /\ r.Notes = Trimmed(f).Notes

\* the file holds exactly the rows of table d, as to_csv writes them
Persisted(f, d) ==
    /\ f.exists
    /\ Len(f.rows) = Len(d)
    /\ \A i \in 1..Len(d) : f.rows[i] = FormatRow(d[i])

\* C1: no two records of a table share an ID; a successful create assigns 1
\* to an empty table and otherwise 1 + the largest ID, which is greater than
\* every ID in the table and was never assigned before.
C1_UniqueMonotoneIDs ==
    [][/\ \A s \in Sessions : UniqueIDs(df[s]) /\ UniqueIDs(df'[s])
       /\ last'.op = "add_ok" =>
            LET old == df[last'.s]
                new == df'[last'.s][Len(df'[last'.s])]
            IN  /\ new.ID = last'.selected_id
                /\ old = <<>> => new.ID = 1
                /\ old # <<>> => new.ID - 1 \in IDs(old)
                /\ \A id \in IDs(old) : new.ID > id
                /\ new.ID \notin {c.id : c \in created}
                /\ created' = created \cup {[s |-> last'.s, id |-> new.ID]}]_vars

\* C1 witness: a create on a table whose largest ID is not its row count
C1_Witness ==
    /\ last.op = "add_ok"
    /\ Len(df[last.s]) = 2
    /\ last.selected_id = 3
    /\ df[last.s][2].ID = 3

\* C2: a create with Company and Role non-empty after trimming appends exactly
\* one record, with a fresh ID, the form's values (text trimmed) and
\* Last_Updated = today; the rows already there are unchanged, and the view
\* with no filter set contains the new record.
C2_CreateAppends ==
    [][(/\ last'.op \in {"add_ok", "add_error"}
        /\ Strip(last'.form.company) # <<>>
        /\ Strip(last'.form.role) # <<>>) =>
            LET old == df[last'.s]
                table == df'[last'.s]
                new == table[Len(table)]
                shown == FilterTable(table, {}, {}, <<>>)
            IN  /\ last'.op = "add_ok"
                /\ Len(table) = Len(old) + 1
                /\ \A i \in 1..Len(old) : table[i] = old[i]
                /\ new.ID \notin IDs(old)
                /\ CarriesForm(new, last'.form)
                /\ new.Last_Updated = today
                /\ \E i \in 1..Len(shown) : shown[i] = new]_vars

\* C2 witness: a second row created from a form whose text had to be trimmed
C2_Witness ==
    /\ last.op = "add_ok"
    /\ Len(df[last.s]) = 2
    /\ last.form.company # Strip(last.form.company)
    /\ df[last.s][2].Company = Strip(last.form.company)
    /\ df[last.s][2].Last_Updated = today

\* C3: a create whose Company or Role is empty after trimming is rejected and
\* changes nothing: the table, the IDs handed out and the file stay as they are.
C3_RejectedCreate ==
    [][(/\ last'.op \in {"add_ok", "add_error"}
        /\ Strip(last'.form.company) = <<>> \/ Strip(last'.form.role) = <<>>) =>
            /\ last'.op = "add_error"
            /\ df' = df
            /\ created' = created
            /\ file' = file]_vars

\* C3 witness: a form with a Company but a blank Role rejected on a table
\* that has rows
C3_Witness ==
    /\ last.op = "add_error"
    /\ last.form.company # <<>>
    /\ Strip(last.form.role) = <<>>
    /\ df[last.s] # <<>>
    /\ Persisted(file, df[last.s])

\* C4: every record of every table has a non-empty Company and a non-empty
\* Role (an update with a blank one is rejected, as a create is).
C4_RequiredNeverEmpty ==
    \A s \in Sessions : \A i \in 1..Len(df[s]) :
        df[s][i].Company # <<>> /\ df[s][i].Role # <<>>

\* C5: an update keeps the record's ID, replaces every other field by the
\* form's value (text trimmed) and sets Last_Updated to today; the number of
\* records and the records with other IDs are unchanged.
C5_UpdateReplaces ==
    [][last'.op = "edit_ok" =>
            LET old == df[last'.s]
                table == df'[last'.s]
            IN  /\ Len(table) = Len(old)
                /\ \A i \in 1..Len(old) :
                      IF old[i].ID = last'.selected_id
                      THEN /\ table[i].ID = old[i].ID
                           /\ CarriesForm(table[i], last'.form)
                           /\ table[i].Last_Updated = today
                      ELSE table[i] = old[i]]_vars

\* C5 witness: the first of two rows updated on a later day than it was stamped
C5_Witness ==
    /\ last.op = "edit_ok"
    /\ Len(df[last.s]) = 2
    /\ df[last.s][1].ID = last.selected_id
    /\ df[last.s][1].Last_Updated = today
    /\ df[last.s][2].Last_Updated < today
    /\ CarriesForm(df[last.s][1], last.form)

\* C6: after a successful create or update the file holds exactly the rows of
\* the session's table, and no step changes a table without the file holding
\* that table afterwards.
C6_SavedAfterEveryChange ==
    [][/\ last'.op \in {"add_ok", "edit_ok"} => Persisted(file', df'[last'.s])
       /\ \A s \in Sessions : df'[s] # df[s] => Persisted(file', df'[s])]_vars

\* C6 witness: two rows in the table and in the file after an update
C6_Witness ==
    /\ last.op = "edit_ok"
    /\ Len(df[last.s]) = 2
    /\ Len(file.rows) = 2
    /\ Persisted(file, df[last.s])

\* C7: after a create or update has saved the table, loading the file gives
\* the same table back, empty optional text fields included.
C7_SaveLoadRoundTrip ==
    last.op \in {"add_ok", "edit_ok"} => load_data(file) = df[last.s]

\* C8: the upcoming view holds exactly the filtered records whose
\* Next_Step_Date is present and 0 to 7 days after today, in ascending order of
\* Next_Step_Date.
C8_UpcomingWindow ==
    view.shown =>
        LET F == view.filtered
            U == view.upcoming
            due == {i \in 1..Len(F) :
                       /\ F[i].Next_Step_Date # NaT
                       /\ F[i].Next_Step_Date - today >= 0
                       /\ F[i].Next_Step_Date - today <= 7}
        IN  /\ Range(U) = {F[i] : i \in due}
            /\ Len(U) = Cardinality(due)
            /\ \A i, j \in 1..Len(U) : i < j => U[i].Next_Step_Date <= U[j].Next_Step_Date

\* C8 witness: of three filtered records the one due in 8 days is left out and
\* the other two are shown in the opposite order
C8_Witness ==
    /\ view.shown
    /\ Len(view.filtered) = 3
    /\ view.filtered[1].Days_to_Next_Step = <<8>>
    /\ Len(view.upcoming) = 2
    /\ view.upcoming[1] = view.filtered[3]
    /\ view.upcoming[2] = view.filtered[2]
    /\ view.upcoming[2].Days_to_Next_Step = <<7>>

\* the filter as the specification states it, with a plain substring test
MatchesFilter(r, status_filter, priority_filter, company_search) ==
    /\ status_filter = {} \/ r.Status \in status_filter
    /\ priority_filter = {} \/ r.Priority \in priority_filter
    /\ \/ Strip(company_search) = <<>>
       \/ r.Company # NaN /\ IsSubstring(Lower(Strip(company_search)), Lower(r.Company))
       \/ r.Role # NaN /\ IsSubstring(Lower(Strip(company_search)), Lower(r.Role))

\* C9: the filtered view holds exactly the records whose Status and Priority
\* are in the selections (an empty selection allows all) and, when the trimmed
\* search text is non-empty, whose lower-cased Company or Role contains the
\* lower-cased text as a substring; the table is not changed.
C9_FilterConjunction ==
    view.shown =>
        [i \in 1..Len(view.filtered) |-> [c \in COLUMNS |-> view.filtered[i][c]]]
             = SelectSeq(df[view.s],
                         LAMBDA r : MatchesFilter(r, view.status_filter,
                                                  view.priority_filter, view.company_search))

\* C10: every create completed by either session has its record in the file,
\* and no ID was handed out by two sessions.
C10_NoLostUpdate ==
    /\ Cardinality(created)
         = Cardinality({i \in 1..Len(file.rows) :
                           ParseInt(file.rows[i].ID) \in {c.id : c \in created}})
    /\ \A a, b \in created : a.s # b.s => a.id # b.id

====
